---------------------------- MODULE Spec2Model ----------------------------
(***************************************************************************)
(* A model of the evidence-collection orchestration, evidence store,       *)
(* control-testing cycle and audit-package assembly of CreatureGRC.        *)
(*                                                                         *)
(* The specifications share the module, one per component:                 *)
(*   SpecCollect   DailyEvidenceCollectionWorkflow (temporal_workflows.py) *)
(*   SpecStore     EvidenceCollector.save_evidence_file                    *)
(*   SpecTest      ContinuousControlTestingWorkflow and its activities     *)
(*   SpecDue       get_controls_due_for_testing on a large table           *)
(*   SpecAssemble  AuditPackageGenerator.generate_audit_package            *)
(*   SpecLLM       GRCLLMClient.complete and acomplete                     *)
(* Each leaves the variables of the other components unchanged.            *)
(***************************************************************************)
EXTENDS Integers, Sequences, FiniteSets, Bags, TLC

VARIABLES
    \* ---- DailyEvidenceCollectionWorkflow.run --------------------------
    job,                 \* per source: the activity as the runtime sees it
    cpc,                 \* position of the workflow body
    total_evidence,      \* local of run (line 445)
    successful_sources,  \* local of run (line 446)
    failed_sources,      \* local of run (line 447)
    notifications,       \* messages send_notification has delivered
    notify_failures,     \* attempts of send_notification that failed
    summary,             \* the dicts run has returned: none, then one
    \* ---- EvidenceCollector.save_evidence_file --------------------------
    files,               \* the evidence directory: path -> bytes, or Absent
    put,                 \* per caller: the call of save_evidence_file in progress
    returned,            \* every (path, hash) pair a call has returned, with its arguments
    nputs,               \* calls of save_evidence_file made so far
    \* ---- ContinuousControlTestingWorkflow and its activities -----------
    today,               \* CURRENT_DATE / datetime.now(), in days
    control_implementations,  \* the table, by row id
    audit_findings,      \* the table: a bag of rows (no key, no uniqueness)
    cycle,               \* per workflow execution: its position and locals
    ncycles,             \* test cycles started so far
    nredeliveries,       \* activity attempts run again after their commit
    \* ---- AuditPackageGenerator.generate_audit_package ------------------
    evidence,            \* the evidence table: the ids of the rows present
    evidence_files,      \* the files evidence rows point at: path -> bytes
    package_dirs,        \* output_dir: package name -> its files (path, content)
    archives,            \* output_dir: package name -> entries of its zip
    generated,           \* what each call returned, with the input it read
    \* ---- GRCLLMClient ---------------------------------------------------
    usage_history,       \* self.usage_history
    requests,            \* completion requests made to providers so far
    raised,              \* what the last call raised, NoValue if it returned
    ncalls               \* calls of complete and acomplete made so far

collectVars == <<job, cpc, total_evidence, successful_sources,
                 failed_sources, notifications, notify_failures, summary>>

storeVars == <<files, put, returned, nputs>>

testVars == <<today, control_implementations, audit_findings, cycle,
              ncycles, nredeliveries>>

asmVars == <<evidence, evidence_files, package_dirs, archives, generated>>

llmVars == <<usage_history, requests, raised, ncalls>>

vars == <<collectVars, storeVars, testVars, asmVars, llmVars>>

\* What the actions of one component leave alone.
notCollectVars == <<storeVars, testVars, asmVars, llmVars>>
notStoreVars   == <<collectVars, testVars, asmVars, llmVars>>
notTestVars    == <<collectVars, storeVars, asmVars, llmVars>>
notAsmVars     == <<collectVars, storeVars, cycle, ncycles, nredeliveries,
                    llmVars>>
notLLMVars     == <<collectVars, storeVars, asmVars, control_implementations,
                    audit_findings, cycle, ncycles, nredeliveries>>

NoValue == "NoValue"

(***************************************************************************)
(* Strings built by f-strings are sequences of their pieces, so that what  *)
(* a string mentions can be asked of it.                                   *)
(***************************************************************************)
Mentions(text, piece) == \E i \in DOMAIN text : text[i] = piece

(***************************************************************************)
(*                 DAILY EVIDENCE COLLECTION WORKFLOW                      *)
(***************************************************************************)

\* The order of the activities handed to asyncio.gather (lines 416-440).
GatherOrder == <<"wazuh", "keycloak", "openscap", "github">>

Sources == {GatherOrder[i] : i \in DOMAIN GatherOrder}

\* RetryPolicy(maximum_attempts=3) (line 409).
MaximumAttempts == 3

\* What an external call of a collector can raise.
CollectorErrors == {"ConnectionError"}

\* EvidenceCollectionResult (lines 26-32).
EvidenceCollectionResult(src, n, ok, err) ==
    [source_system |-> src, evidence_count |-> n, success |-> ok, error |-> err]

\* The except branch shared by the four activities (e.g. lines 85-92).
FailureResult(src, err) == EvidenceCollectionResult(src, 0, FALSE, err)

\* collect_wazuh_evidence: Path is imported neither by the module nor by the
\* function, so line 70 raises NameError once the configuration is read; an
\* earlier failure raises its own error.  Either way the except branch returns.
collect_wazuh_evidence ==
    {FailureResult("wazuh", "name 'Path' is not defined")}
    \cup {FailureResult("wazuh", e) : e \in CollectorErrors}

\* collect_keycloak_evidence: three artifacts, or the except branch.
collect_keycloak_evidence ==
    {EvidenceCollectionResult("keycloak", 3, TRUE, NoValue)}
    \cup {FailureResult("keycloak", e) : e \in CollectorErrors}

\* collect_openscap_evidence: one report, or the except branch.
collect_openscap_evidence ==
    {EvidenceCollectionResult("openscap", 1, TRUE, NoValue)}
    \cup {FailureResult("openscap", e) : e \in CollectorErrors}

\* collect_github_evidence: collect_audit_log returns a path, or None when the
\* API does not answer 200 (success False, error left None), or raises.
collect_github_evidence ==
    {EvidenceCollectionResult("github", 1, TRUE, NoValue),
     EvidenceCollectionResult("github", 0, FALSE, NoValue)}
    \cup {FailureResult("github", e) : e \in CollectorErrors}

\* The values an attempt of the activity of source s can return.
ActivityReturns(s) ==
    CASE s = "wazuh"    -> collect_wazuh_evidence
      [] s = "keycloak" -> collect_keycloak_evidence
      [] s = "openscap" -> collect_openscap_evidence
      [] s = "github"   -> collect_github_evidence

\* str() of the exception execute_activity raises once the runtime gives up.
ActivityErrorText == <<"Activity task timed out">>

\* gather called without return_exceptions.
ReturnExceptionsOmitted == FALSE

\* gather(..., return_exceptions=True) (line 441).
ReturnExceptions == TRUE

Scheduled(s) == job[s].state = "scheduled"
Terminal(s)  == job[s].state \in {"completed", "failed"}

\* An attempt of the activity of s runs to its return statement.  Every
\* Exception inside the activity is caught by the activity itself, so the
\* runtime sees a completed activity whatever success says.
AttemptReturns(s) ==
    /\ cpc = "gather"
    /\ Scheduled(s)
    /\ \E r \in ActivityReturns(s) :
          job' = [job EXCEPT ![s] = [state |-> "completed",
                                     attempts |-> job[s].attempts + 1,
                                     result |-> r]]
    /\ UNCHANGED <<cpc, total_evidence, successful_sources, failed_sources,
                   notifications, notify_failures, summary>>
    /\ UNCHANGED notCollectVars

\* An attempt exceeds start_to_close_timeout.  The runtime applies the retry
\* policy: another attempt while attempts remain, else the activity fails and
\* execute_activity raises.
AttemptTimesOut(s) ==
    /\ cpc = "gather"
    /\ Scheduled(s)
    /\ LET n == job[s].attempts + 1 IN
       job' = [job EXCEPT ![s] =
                 IF n < MaximumAttempts
                 THEN [state |-> "scheduled", attempts |-> n, result |-> NoValue]
                 ELSE [state |-> "failed", attempts |-> n,
                       result |-> ActivityErrorText]]
    /\ UNCHANGED <<cpc, total_evidence, successful_sources, failed_sources,
                   notifications, notify_failures, summary>>
    /\ UNCHANGED notCollectVars

\* gather resolves.  With return_exceptions it waits for every awaitable and
\* hands exceptions back as results; without, the first exception propagates
\* out of run.
GatherResolves ==
    /\ cpc = "gather"
    /\ IF ReturnExceptions
       THEN /\ \A s \in Sources : Terminal(s)
            /\ cpc' = "summarize"
       ELSE \/ /\ \A s \in Sources : job[s].state = "completed"
               /\ cpc' = "summarize"
            \/ /\ \E s \in Sources : job[s].state = "failed"
               /\ cpc' = "raised"
    /\ UNCHANGED <<job, total_evidence, successful_sources, failed_sources,
                   notifications, notify_failures, summary>>
    /\ UNCHANGED notCollectVars

\* One iteration of the loop of lines 449-456 on result r, from the
\* accumulator acc = <<total_evidence, successful_sources, failed_sources>>.
SummarizeOne(acc, r) ==
    IF r.state = "failed"
    THEN <<acc[1], acc[2], Append(acc[3], r.result)>>
    ELSE IF r.result.success
    THEN <<acc[1] + r.result.evidence_count, acc[2] + 1, acc[3]>>
    ELSE <<acc[1], acc[2],
           Append(acc[3], <<r.result.source_system, ": ", r.result.error>>)>>

RECURSIVE SummarizeFrom(_, _)
SummarizeFrom(acc, i) ==
    IF i > Len(GatherOrder) THEN acc
    ELSE SummarizeFrom(SummarizeOne(acc, job[GatherOrder[i]]), i + 1)

\* Lines 444-456.
Summarize ==
    /\ cpc = "summarize"
    /\ LET acc == SummarizeFrom(<<0, 0, <<>>>>, 1) IN
       /\ total_evidence' = acc[1]
       /\ successful_sources' = acc[2]
       /\ failed_sources' = acc[3]
    /\ cpc' = "notify"
    /\ UNCHANGED <<job, notifications, notify_failures, summary>>
    /\ UNCHANGED notCollectVars

\* Failed attempts of send_notification explored in one run.
MaxNotifyFailures == 2

\* An attempt of send_notification fails: it exceeds start_to_close_timeout
\* or its worker is lost.  No retry_policy is given (lines 459-463), so the
\* runtime's default applies, which retries without limit: run stays at its
\* await.
NotifyAttemptFails ==
    /\ cpc = "notify"
    /\ notify_failures < MaxNotifyFailures
    /\ notify_failures' = notify_failures + 1
    /\ UNCHANGED <<job, cpc, total_evidence, successful_sources, failed_sources,
                   notifications, summary>>
    /\ UNCHANGED notCollectVars

\* The notification sent only when a source succeeded.
NotifyUnlessAllFailed ==
    /\ cpc = "notify"
    /\ notifications' =
          IF successful_sources = 0 THEN notifications
          ELSE Append(notifications,
                  <<"Daily evidence collection complete: ", total_evidence,
                    " items from ", successful_sources, " sources">>)
    /\ cpc' = "return"
    /\ UNCHANGED <<job, total_evidence, successful_sources, failed_sources,
                   notify_failures, summary>>
    /\ UNCHANGED notCollectVars

\* Lines 458-463: the send_notification activity completes.
Notify ==
    /\ cpc = "notify"
    /\ notifications' = Append(notifications,
          <<"Daily evidence collection complete: ", total_evidence,
            " items from ", successful_sources, " sources">>)
    /\ cpc' = "return"
    /\ UNCHANGED <<job, total_evidence, successful_sources, failed_sources,
                   notify_failures, summary>>
    /\ UNCHANGED notCollectVars

\* Lines 465-471.
Return ==
    /\ cpc = "return"
    /\ summary' = Append(summary,
                      [total_evidence_collected |-> total_evidence,
                       successful_sources |-> successful_sources,
                       failed_sources |-> failed_sources])
    /\ cpc' = "done"
    /\ UNCHANGED <<job, total_evidence, successful_sources, failed_sources,
                   notifications, notify_failures>>
    /\ UNCHANGED notCollectVars

(***************************************************************************)
(*              EVIDENCE STORE: EvidenceCollector.save_evidence_file       *)
(***************************************************************************)

\* Calls of save_evidence_file explored.
MaxPuts == 3

\* Concurrent callers of save_evidence_file (activities of overlapping runs).
Putters == {1, 2}

\* Bytes are sequences of blocks; a block is what one flush of the buffered
\* writer hands to the file.
Blocks == {"a", "b"}

\* The hole left when a write lands beyond the end of a truncated file.
Hole == "0"

\* The content argument: a dict, serialised by json.dump (line 73), or
\* anything else, written as str(content) (line 76).
Contents == {[kind |-> "dict", val |-> "d1"],
             [kind |-> "dict", val |-> "d2"],
             [kind |-> "str",  val |-> <<"a">>],
             [kind |-> "str",  val |-> <<"b">>]}

\* json.dump(content, f, indent=2, default=str) of the dicts explored.  The
\* text of d1 is also one of the strings explored.
JsonDump(d) == IF d = "d1" THEN <<"a">> ELSE <<"a", "b">>

\* Lines 71-76: the bytes save_evidence_file writes for content.
Serialize(content) ==
    IF content.kind = "dict" THEN JsonDump(content.val) ELSE content.val

\* hashlib.sha256 (lines 79-82): a function of the bytes alone, taken to be
\* collision free.
Sha256(bytes) == <<"sha256", bytes>>

\* The filename and subdir arguments.
Filenames == {"wazuh-agent-status-20250101.json", "github-audit-log-20250101.json"}
Subdirs   == {"", "CC7-monitoring"}

\* Lines 62-68: filepath = output_dir / subdir / filename, or
\* output_dir / filename when subdir is empty.
FilePath(filename, subdir) ==
    IF subdir # "" THEN <<"output_dir", subdir, filename>>
    ELSE <<"output_dir", filename>>

Paths == {FilePath(f, d) : f \in Filenames, d \in Subdirs}

Absent == <<"absent">>

Idle == [pc |-> "idle"]

\* A write of block blk at offset o (counted in blocks, from 1) of file f.
WriteAt(f, o, blk) ==
    LET n == IF Len(f) > o THEN Len(f) ELSE o
    IN [i \in 1..n |-> IF i = o THEN blk
                       ELSE IF i <= Len(f) THEN f[i] ELSE Hole]

\* save_evidence_file is called: lines 62-68 compute the path, and
\* open(filepath, 'w') (lines 72, 75) creates or truncates the file.
PutOpen(w, content, filename, subdir) ==
    /\ put[w].pc = "idle"
    /\ nputs < MaxPuts
    /\ nputs' = nputs + 1
    /\ LET path == FilePath(filename, subdir) IN
       /\ files' = [files EXCEPT ![path] = <<>>]
       /\ put' = [put EXCEPT ![w] =
                    [pc |-> "write", content |-> content, filename |-> filename,
                     subdir |-> subdir, path |-> path,
                     bytes |-> Serialize(content), offset |-> 1]]
    /\ UNCHANGED returned
    /\ UNCHANGED notStoreVars

\* One flush of the writer: the next block reaches the file at the writer's
\* own offset (lines 73, 76); after the last block the with-block closes.
PutWrite(w) ==
    /\ put[w].pc = "write"
    /\ LET c == put[w] IN
       /\ files' = [files EXCEPT ![c.path] = WriteAt(@, c.offset, c.bytes[c.offset])]
       /\ put' = [put EXCEPT ![w] =
                    IF c.offset = Len(c.bytes)
                    THEN [c EXCEPT !.pc = "hash"]
                    ELSE [c EXCEPT !.offset = c.offset + 1]]
    /\ UNCHANGED <<returned, nputs>>
    /\ UNCHANGED notStoreVars

\* Lines 78-84: the file is read back, hashed, and (path, hash) returned.
PutHash(w) ==
    /\ put[w].pc = "hash"
    /\ LET c == put[w] IN
       returned' = returned \cup
            {[content |-> c.content, filename |-> c.filename, subdir |-> c.subdir,
              path |-> c.path, hash |-> Sha256(files[c.path])]}
    /\ put' = [put EXCEPT ![w] = Idle]
    /\ UNCHANGED <<files, nputs>>
    /\ UNCHANGED notStoreVars

\* The activity running the call is cancelled, or its process stops, after
\* the file was opened and before the call returned.
PutStops(w) ==
    /\ put[w].pc \in {"write", "hash"}
    /\ put' = [put EXCEPT ![w] = Idle]
    /\ UNCHANGED <<files, returned, nputs>>
    /\ UNCHANGED notStoreVars

NextStore ==
    \/ \E w \in Putters, c \in Contents, f \in Filenames, d \in Subdirs :
          PutOpen(w, c, f, d)
    \/ \E w \in Putters : PutWrite(w)
    \/ \E w \in Putters : PutHash(w)
    \/ \E w \in Putters : PutStops(w)

(***************************************************************************)
(*                   CONTINUOUS CONTROL TESTING WORKFLOW                   *)
(***************************************************************************)

\* The day the behaviours start on.
FirstDay == 1

\* Events of the environment explored in one behaviour: test cycles started,
\* days gone by, and attempts of update_control_test_status that the runtime
\* runs again after the attempt's commit (at-least-once execution).
MaxEvents == 3

\* Workflow executions that may overlap.
Workflows == {1, 2}

\* frequency_days (lines 269-275).
Frequencies == {"daily", "weekly", "monthly", "quarterly", "annually"}

frequency_days(f) ==
    CASE f = "daily"     -> 1
      [] f = "weekly"    -> 7
      [] f = "monthly"   -> 30
      [] f = "quarterly" -> 90
      [] f = "annually"  -> 365

\* Values of the testing_frequency column: the five frequencies, NULL, and a
\* value frequency_days does not know.
FrequencyValues == Frequencies \cup {NoValue, "biweekly"}

\* Every frequency given the default of line 276.
default_offset(f) == 90

\* Line 276: frequency_days.get(control.get('testing_frequency', 'quarterly'), 90).
\* The key is always present in a fetched row, so the inner default is unused
\* and NULL and unknown values fall to the outer default.
days_offset(f) == IF f \in Frequencies THEN frequency_days(f) ELSE 90

\* The calendar of datetime (lines 283-284): days are counted from 1 January
\* of EpochYear, which is day 1, and a day number is shown as <<year, month,
\* day>> by the Gregorian rules datetime follows.
EpochYear == 2025

\* A calendar whose every year has a 29 February.
EveryYearLeap(y) == TRUE

IsLeap(y) == (y % 4 = 0) /\ ((y % 100 # 0) \/ (y % 400 = 0))

DaysInMonth(y, m) ==
    CASE m \in {1, 3, 5, 7, 8, 10, 12} -> 31
      [] m \in {4, 6, 9, 11} -> 30
      [] m = 2 -> IF IsLeap(y) THEN 29 ELSE 28

DaysInYear(y) == IF IsLeap(y) THEN 366 ELSE 365

\* The date of day n of year y, looked for from month m on.
RECURSIVE MonthAndDay(_, _, _)
MonthAndDay(y, m, n) ==
    IF n <= DaysInMonth(y, m) THEN <<y, m, n>>
    ELSE MonthAndDay(y, m + 1, n - DaysInMonth(y, m))

\* The date of day n counted from 1 January of year y (n >= 1).
RECURSIVE DateFrom(_, _)
DateFrom(y, n) ==
    IF n <= DaysInYear(y) THEN MonthAndDay(y, 1, n)
    ELSE DateFrom(y + 1, n - DaysInYear(y))

\* datetime.date(): the calendar date of day number n.
DateOf(n) == DateFrom(EpochYear, n)

\* The only control code with test logic (line 247).
RegisteredCodes == {"CC6.1"}

\* What the test logic of CC6.1 can raise.
TestErrors == {"ConnectionError"}

\* Rows of control_implementations.  Control A (CC6.1) has two
\* implementations, one of them not fully implemented; control B (CC7.2)
\* has one.
ImplIds == {1, 2, 3}

ControlOf(i) == IF i = 2 THEN "B" ELSE "A"
CodeOf(c)    == IF c = "A" THEN "CC6.1" ELSE "CC7.2"
StatusOf(i)  == IF i = 3 THEN "partially_implemented" ELSE "implemented"

\* RetryPolicy(maximum_attempts=2) of run_automated_control_test (line 498).
TestMaximumAttempts == 2

\* LIMIT 100 (line 230).
DueLimit == 100

\* Rows of control_implementations when get_controls_due_for_testing is
\* explored on its own.
MaxDueRows == 103

IdleCycle == [pc |-> "idle", as_of |-> 0, controls |-> <<>>, i |-> 0,
              attempts |-> 0, result |-> <<>>, test_results |-> <<>>,
              out |-> <<>>]

\* get_controls_due_for_testing: the WHERE clause (lines 227-228).
IsDue(i) ==
    /\ control_implementations[i].next_test_date <= today
    /\ control_implementations[i].implementation_status = "implemented"

\* The row dict the query returns for implementation i (lines 216-224).
DueRow(i) ==
    LET r == control_implementations[i] IN
    [control_implementation_id |-> i,
     control_id |-> r.control_id,
     control_code |-> CodeOf(r.control_id),
     testing_frequency |-> r.testing_frequency,
     last_test_date |-> r.last_test_date,
     next_test_date |-> r.next_test_date]

\* ORDER BY ci.next_test_date ASC (line 229): every order of the rows S
\* that is ascending in next_test_date, rows with the same date coming in
\* any order p of the rows that share their date with another.
AscendingOrders(S) ==
    LET date(i) == control_implementations[i].next_test_date
        tied  == {i \in S : \E j \in S \ {i} : date(j) = date(i)}
        m     == Cardinality(tied)
        perms == {p \in [1..m -> tied] :
                    \A a, b \in 1..m : a # b => p[a] # p[b]}
        ids   == [k \in DOMAIN control_implementations |-> k]
        rows  == SelectSeq(ids, LAMBDA i : i \in S)
        order(p) ==
            LET pos(i) == CHOOSE k \in 1..m : p[k] = i
                before(j, i) ==
                    \/ date(j) < date(i)
                    \/ date(j) = date(i) /\ j # i /\ pos(j) < pos(i)
            IN SortSeq(rows, before)
    IN {order(p) : p \in perms}

DueOrders ==
    AscendingOrders({i \in DOMAIN control_implementations : IsDue(i)})

\* A result the LIMIT clause is left out of.
NoLimit(s) == s

\* LIMIT 100 applied to an ordered result.
Limit(s) == SubSeq(s, 1, IF Len(s) < DueLimit THEN Len(s) ELSE DueLimit)

\* ControlTestResult (lines 35-42).
ControlTestResult(id, code, passed, date, findings, next) ==
    [control_id |-> id, control_code |-> code, test_passed |-> passed,
     test_date |-> date, findings |-> findings, next_test_date |-> next]

\* The try block returning with no offset added to the test date.
TestReturnsUnscheduled(control) ==
    ControlTestResult(control.control_id, control.control_code, TRUE, today,
                      <<>>, today)

\* run_automated_control_test, the try block running to its return
\* (lines 241-285): test_passed stays True; only CC6.1 adds a finding line.
\* Dates are days: the datetime.now() reads of one execution of the activity
\* fall on the same day, today.
TestReturns(control) ==
    ControlTestResult(
        control.control_id, control.control_code, TRUE, today,
        IF control.control_code = "CC6.1"
        THEN <<<<"MFA configuration verified on ", today>>>>
        ELSE <<>>,
        today + days_offset(control.testing_frequency))

\* The offset of the except branch (line 295).
RetryTomorrow == 1

\* The except branch without its override: the nominal offset.
TestCaughtNominal(control, e) ==
    ControlTestResult(
        control.control_id, control.control_code, FALSE, today,
        <<<<"Test failed: ", e>>>>,
        today + days_offset(control.testing_frequency))

\* run_automated_control_test, the except branch (lines 287-296).
TestCaught(control, e) ==
    ControlTestResult(
        control.control_id, control.control_code, FALSE, today,
        <<<<"Test failed: ", e>>>>,
        today + RetryTomorrow)

\* A try block without its except branch.
CatchesNothing == FALSE

\* The try block has an except Exception branch (line 287).
CatchesTestErrors == TRUE

\* The errors the test logic of a control can raise: only CC6.1 runs any.
Raisable(control) ==
    IF control.control_code \in RegisteredCodes THEN TestErrors ELSE {}

\* The clock moves to the next day.
Events == ncycles + nredeliveries + (today - FirstDay)

Tick ==
    /\ Events < MaxEvents
    /\ today' = today + 1
    /\ UNCHANGED <<control_implementations, audit_findings, cycle, ncycles,
                   nredeliveries>>
    /\ UNCHANGED notTestVars

\* A workflow execution starts and runs get_controls_due_for_testing
\* (lines 483-489).
Fetch(w) ==
    /\ cycle[w].pc \in {"idle", "done", "faulted"}
    /\ Events < MaxEvents
    /\ ncycles' = ncycles + 1
    /\ \E s \in DueOrders :
          LET controls == [k \in DOMAIN Limit(s) |-> DueRow(Limit(s)[k])] IN
          cycle' = [cycle EXCEPT ![w] =
                      [IdleCycle EXCEPT !.pc = IF controls = <<>> THEN "summarize"
                                               ELSE "test",
                                        !.as_of = today,
                                        !.controls = controls,
                                        !.i = IF controls = <<>> THEN 0 ELSE 1]]
    /\ UNCHANGED <<today, control_implementations, audit_findings, nredeliveries>>
    /\ UNCHANGED notTestVars

\* The attempt of run_automated_control_test of workflow w fails: the runtime
\* tries once more (maximum_attempts=2), then execute_activity raises inside
\* the loop of run and the workflow execution fails.
AttemptFails(w) ==
    cycle' = [cycle EXCEPT ![w] =
                IF cycle[w].attempts + 1 < TestMaximumAttempts
                THEN [@ EXCEPT !.attempts = @ + 1]
                ELSE [@ EXCEPT !.attempts = @ + 1, !.pc = "faulted"]]

\* run_automated_control_test completes for the current control (lines
\* 494-499) with the result of its try block.
RunTest(w) ==
    /\ cycle[w].pc = "test"
    /\ LET control == cycle[w].controls[cycle[w].i] IN
       cycle' = [cycle EXCEPT ![w].result = <<TestReturns(control)>>,
                              ![w].pc = "update", ![w].attempts = 0]
    /\ UNCHANGED <<today, control_implementations, audit_findings, ncycles,
                   nredeliveries>>
    /\ UNCHANGED notTestVars

\* The test logic of the current control raises an error inside the try
\* block: the except branch returns a failed result (lines 287-296).
TestLogicRaises(w) ==
    /\ cycle[w].pc = "test"
    /\ LET control == cycle[w].controls[cycle[w].i] IN
       \E e \in Raisable(control) :
          IF CatchesTestErrors
          THEN cycle' = [cycle EXCEPT ![w].result = <<TestCaught(control, e)>>,
                                      ![w].pc = "update", ![w].attempts = 0]
          ELSE AttemptFails(w)
    /\ UNCHANGED <<today, control_implementations, audit_findings, ncycles,
                   nredeliveries>>
    /\ UNCHANGED notTestVars

\* An attempt of run_automated_control_test exceeds its timeout.
TestTimesOut(w) ==
    /\ cycle[w].pc = "test"
    /\ AttemptFails(w)
    /\ UNCHANGED <<today, control_implementations, audit_findings, ncycles,
                   nredeliveries>>
    /\ UNCHANGED notTestVars

\* The rows SELECT id ... WHERE control_id = %s LIMIT 1 can return (lines
\* 311-317): any one row of the control, no order being given.
ImplementationsOf(control_id) ==
    {i \in ImplIds : control_implementations[i].control_id = control_id}

\* The finding inserted for a failed result (lines 335-351).
FindingFor(result, control_impl_id) ==
    [finding_title |-> <<"Automated test failed: ", result.control_code>>,
     finding_description |-> result.findings,
     severity |-> "high",
     control_implementation_id |-> control_impl_id,
     identified_date |-> result.test_date,
     status |-> "open"]

\* The transaction closing the findings of the row when the test passed.
CommittedResolving(result, control_impl_id) ==
    /\ control_implementations' =
          [control_implementations EXCEPT
              ![control_impl_id].last_test_date = result.test_date,
              ![control_impl_id].next_test_date = result.next_test_date]
    /\ audit_findings' =
          IF result.test_passed
          THEN LET resolved(f) ==
                      IF f.control_implementation_id = control_impl_id
                      THEN [f EXCEPT !.status = "resolved"] ELSE f
               IN [g \in {resolved(f) : f \in BagToSet(audit_findings)} |->
                     IF g.status = "resolved"
                     THEN CopiesIn([g EXCEPT !.status = "open"], audit_findings)
                     ELSE CopiesIn(g, audit_findings)]
          ELSE audit_findings (+) SetToBag({FindingFor(result, control_impl_id)})

\* The transaction of update_control_test_status on row control_impl_id
\* (lines 324-353).
Committed(result, control_impl_id) ==
    /\ control_implementations' =
          [control_implementations EXCEPT
              ![control_impl_id].last_test_date = result.test_date,
              ![control_impl_id].next_test_date = result.next_test_date]
    /\ audit_findings' =
          IF ~result.test_passed
          THEN audit_findings (+) SetToBag({FindingFor(result, control_impl_id)})
          ELSE audit_findings

\* update_control_test_status as a whole (lines 299-353): nothing when the
\* control has no implementation row, else the transaction.
UpdateStatus(result) ==
    IF ImplementationsOf(result.control_id) = {}
    THEN UNCHANGED <<control_implementations, audit_findings>>
    ELSE \E id \in ImplementationsOf(result.control_id) : Committed(result, id)

\* The update step leaving the loop after the first control.
UpdateThenLeave(w) ==
    /\ cycle[w].pc = "update"
    /\ UpdateStatus(cycle[w].result[1])
    /\ LET c == cycle[w] IN
       cycle' = [cycle EXCEPT ![w] =
                   [c EXCEPT !.test_results = Append(@, c.result[1]),
                             !.result = <<>>,
                             !.pc = "summarize"]]
    /\ UNCHANGED <<today, ncycles, nredeliveries>>
    /\ UNCHANGED notTestVars

\* The workflow's update step (lines 501-508): the activity completes, the
\* result is appended and the loop moves on.
Update(w) ==
    /\ cycle[w].pc = "update"
    /\ UpdateStatus(cycle[w].result[1])
    /\ LET c == cycle[w] IN
       cycle' = [cycle EXCEPT ![w] =
                   [c EXCEPT !.test_results = Append(@, c.result[1]),
                             !.result = <<>>,
                             !.i = IF c.i < Len(c.controls) THEN c.i + 1 ELSE c.i,
                             !.pc = IF c.i < Len(c.controls) THEN "test"
                                    ELSE "summarize"]]
    /\ UNCHANGED <<today, ncycles, nredeliveries>>
    /\ UNCHANGED notTestVars

\* An attempt of update_control_test_status commits but is not reported
\* complete (its worker stops, or the attempt exceeds its timeout after the
\* commit): the runtime will run the activity again with the same result.
UpdateRedelivered(w) ==
    /\ cycle[w].pc = "update"
    /\ Events < MaxEvents
    /\ nredeliveries' = nredeliveries + 1
    /\ UpdateStatus(cycle[w].result[1])
    /\ UNCHANGED <<today, cycle, ncycles>>
    /\ UNCHANGED notTestVars

\* The counts of lines 510-512 over the results of a cycle, as the returned
\* dict (lines 521-527).
CycleSummary(rs) ==
    LET passed == Cardinality({k \in DOMAIN rs : rs[k].test_passed})
        failed == Cardinality({k \in DOMAIN rs : ~rs[k].test_passed})
    IN [controls_tested |-> Len(rs), passed |-> passed, failed |-> failed,
        notified |-> failed > 0]

\* Lines 510-514 and 521-527: the counts; run returns them at once when no
\* test failed, else it goes on to the notification.
SummarizeCycle(w) ==
    /\ cycle[w].pc = "summarize"
    /\ LET s == CycleSummary(cycle[w].test_results) IN
       cycle' = [cycle EXCEPT
                   ![w].pc = IF s.failed > 0 THEN "notify" ELSE "done",
                   ![w].out = IF s.failed > 0 THEN <<>> ELSE <<s>>]
    /\ UNCHANGED <<today, control_implementations, audit_findings, ncycles,
                   nredeliveries>>
    /\ UNCHANGED notTestVars

\* Lines 514-527: send_notification completes and run returns the dict.
NotifyCycle(w) ==
    /\ cycle[w].pc = "notify"
    /\ cycle' = [cycle EXCEPT
                   ![w].pc = "done",
                   ![w].out = <<CycleSummary(cycle[w].test_results)>>]
    /\ UNCHANGED <<today, control_implementations, audit_findings, ncycles,
                   nredeliveries>>
    /\ UNCHANGED notTestVars

NextTest ==
    \/ Tick
    \/ \E w \in Workflows : Fetch(w)
    \/ \E w \in Workflows : RunTest(w)
    \/ \E w \in Workflows : TestLogicRaises(w)
    \/ \E w \in Workflows : TestTimesOut(w)
    \/ \E w \in Workflows : Update(w)
    \/ \E w \in Workflows : UpdateRedelivered(w)
    \/ \E w \in Workflows : SummarizeCycle(w)
    \/ \E w \in Workflows : NotifyCycle(w)

(***************************************************************************)
(*          AUDIT PACKAGE: AuditPackageGenerator.generate_audit_package    *)
(***************************************************************************)

\* Calls of generate_audit_package and changes of the tables explored in
\* one behaviour.
MaxAsmEvents == 4

\* Days that go by between calls of generate_audit_package.
MaxPackageDays == 1

\* The arguments of the call.
Client == "acme"
Framework == "SOC2"

\* The controls of the framework with their domains, in the order of
\* ORDER BY cd.domain_code, c.control_code (line 68).  Control C has no
\* implementation.
FrameworkControls ==
    <<[domain_code |-> "CC6", domain_name |-> "Logical Access",
       control_id |-> "A", control_code |-> "CC6.1"],
      [domain_code |-> "CC7", domain_name |-> "System Operations",
       control_id |-> "B", control_code |-> "CC7.2"],
      [domain_code |-> "CC8", domain_name |-> "Change Management",
       control_id |-> "C", control_code |-> "CC8.1"]>>

\* The evidence rows that can be in the table: each with the period its
\* content covers (row 3 covers a month long past) and its review status.
EvidenceIds == {1, 2, 3}

EvidenceRow(e) ==
    CASE e = 1 -> [id |-> 1, control_implementation_id |-> 1,
                   review_status |-> "approved", collection_timestamp |-> 1,
                   evidence_period_start |-> 1, evidence_period_end |-> 1,
                   file_path |-> <<"evidence", "CC6-authentication", "wazuh-auth-logs.json">>,
                   file_hash |-> Sha256(<<"a">>)]
      [] e = 2 -> [id |-> 2, control_implementation_id |-> 1,
                   review_status |-> "pending", collection_timestamp |-> 2,
                   evidence_period_start |-> 2, evidence_period_end |-> 2,
                   file_path |-> <<"evidence", "CC6-authentication", "keycloak-mfa-config.json">>,
                   file_hash |-> Sha256(<<"b">>)]
      [] e = 3 -> [id |-> 3, control_implementation_id |-> 2,
                   review_status |-> "approved", collection_timestamp |-> 3,
                   evidence_period_start |-> 0 - 60, evidence_period_end |-> 0 - 31,
                   file_path |-> <<"evidence", "CC7-monitoring", "wazuh-agent-status.json">>,
                   file_hash |-> Sha256(<<"a", "b">>)]

\* The bytes collected for evidence row e (those file_hash was taken of).
EvidenceBytes(e) == EvidenceRow(e).file_hash[2]

EvidencePaths == {EvidenceRow(e).file_path : e \in EvidenceIds}

\* A file that exists and cannot be read: shutil.copy2 raises on it.
Unreadable == <<"unreadable">>

\* Path(...).name: the last component of a path.
BaseName(path) == path[Len(path)]

\* The sequence of the set S of numbers, largest first.
RECURSIVE Descending(_)
Descending(S) ==
    IF S = {} THEN <<>>
    ELSE LET m == CHOOSE x \in S : \A y \in S : y <= x
         IN <<m>> \o Descending(S \ {m})

\* get_framework_controls (lines 37-70): one row per control and
\* implementation (LEFT JOIN), a control without implementation keeping one
\* row of NULLs, in the order of FrameworkControls.
ControlRows(c) ==
    LET ids == {i \in ImplIds : control_implementations[i].control_id = c.control_id}
        row(i) == [domain_code |-> c.domain_code, domain_name |-> c.domain_name,
                   control_id |-> c.control_id, control_code |-> c.control_code,
                   control_implementation_id |-> i,
                   implementation_status |->
                      IF i = 0 THEN NoValue
                      ELSE control_implementations[i].implementation_status,
                   last_test_date |->
                      IF i = 0 THEN 0 ELSE control_implementations[i].last_test_date,
                   next_test_date |->
                      IF i = 0 THEN 0 ELSE control_implementations[i].next_test_date]
        order == Descending({0 - i : i \in ids})
    IN IF ids = {} THEN <<row(0)>>
       ELSE [k \in DOMAIN order |-> row(0 - order[k])]

RECURSIVE FrameworkRowsFrom(_)
FrameworkRowsFrom(k) ==
    IF k > Len(FrameworkControls) THEN <<>>
    ELSE ControlRows(FrameworkControls[k]) \o FrameworkRowsFrom(k + 1)

get_framework_controls == FrameworkRowsFrom(1)

\* get_control_evidence (lines 72-95): every evidence row of the
\* implementation, newest first.
get_control_evidence(control_impl_id) ==
    LET rows == {e \in evidence :
                    EvidenceRow(e).control_implementation_id = control_impl_id}
        order == Descending({EvidenceRow(e).collection_timestamp : e \in rows})
    IN [k \in DOMAIN order |->
          EvidenceRow(CHOOSE e \in rows :
                         EvidenceRow(e).collection_timestamp = order[k])]

\* get_audit_findings (lines 97-118): the open and in_progress findings of
\* the implementation, as a bag (the findings explored share one severity
\* and are told apart by their dates).
get_audit_findings(control_impl_id) ==
    LET rows == {f \in BagToSet(audit_findings) :
                    /\ f.control_implementation_id = control_impl_id
                    /\ f.status \in {"open", "in_progress"}}
    IN [f \in rows |-> CopiesIn(f, audit_findings)]

\* Line 368: package_name = f"{client}-{framework}-evidence-{timestamp}".
PackageName(client, framework, day) == <<client, framework, "evidence", day>>

PackageNames == {PackageName(Client, Framework, d) :
                    d \in FirstDay..(FirstDay + MaxPackageDays)}

\* Line 386: the directory of a control's domain, as path components.
DomainDir(control) == <<control.domain_code, control.domain_name>>

\* A directory is a function from the paths of its files to their content.
EmptyDir == <<>>

\* Writing the files new into a directory holding old: a file written again
\* replaces the one at its path, every other file stays.
WriteInto(old, new) ==
    [p \in DOMAIN old \cup DOMAIN new |->
        IF p \in DOMAIN new THEN new[p] ELSE old[p]]

\* The files generate_audit_package writes for one row of controls (lines
\* 389-411): nothing for a row without implementation; else the control
\* summary and a copy of every evidence file that exists and can be read.
ControlFiles(control) ==
    IF control.control_implementation_id = 0 THEN EmptyDir
    ELSE LET ev == get_control_evidence(control.control_implementation_id)
             fs == get_audit_findings(control.control_implementation_id)
             html == DomainDir(control) \o <<control.control_code, ".html">>
             copied == {j \in DOMAIN ev :
                          evidence_files[ev[j].file_path] \notin {Absent, Unreadable}}
             dest(j) == DomainDir(control) \o <<BaseName(ev[j].file_path)>>
         IN [p \in {html} \cup {dest(j) : j \in copied} |->
               IF p = html
               THEN [control |-> control, evidence |-> ev, findings |-> fs]
               ELSE evidence_files[ev[CHOOSE j \in copied : dest(j) = p].file_path]]

\* The warnings generate_audit_package logs for one row of controls (lines
\* 408-411): one for every evidence file that exists and whose copy raises.
ControlWarnings(control) ==
    IF control.control_implementation_id = 0 THEN {}
    ELSE LET ev == get_control_evidence(control.control_implementation_id)
         IN {<<"Could not copy evidence file", ev[j].file_path>> :
                j \in {k \in DOMAIN ev :
                          evidence_files[ev[k].file_path] = Unreadable}}

\* generate_framework_summary (lines 234-241): the counts of 00-SUMMARY.html.
generate_framework_summary(controls) ==
    LET count(st) == Cardinality({k \in DOMAIN controls :
                                     controls[k].implementation_status = st})
    IN [total_controls |-> Len(controls),
        implemented |-> count("implemented"),
        not_implemented |-> count("not_implemented"),
        partial |-> count("partially_implemented")]

\* The files one call writes, in the order of the loop: a later row writing
\* the path of an earlier one replaces it.
RECURSIVE WrittenFrom(_, _)
WrittenFrom(controls, k) ==
    IF k = 0 THEN EmptyDir
    ELSE WriteInto(WrittenFrom(controls, k - 1), ControlFiles(controls[k]))

\* AuditPackageResult as the generate_audit_package activity builds it
\* (temporal_workflows.py lines 374-380).
AuditPackageResult(client, framework, package_path) ==
    [client |-> client, framework |-> framework, package_path |-> package_path,
     control_count |-> 0, evidence_count |-> 0]

\* The evidence rows whose file is no longer the one collected.
Damaged == {e \in evidence : evidence_files[EvidenceRow(e).file_path] # EvidenceBytes(e)}

AsmEvents == Len(generated) + Cardinality(evidence) + BagCardinality(audit_findings)
                + Cardinality(Damaged)

\* A collector stores an evidence row and its file.
InsertEvidence(e) ==
    /\ e \notin evidence
    /\ AsmEvents < MaxAsmEvents
    /\ evidence' = evidence \cup {e}
    /\ evidence_files' =
          [evidence_files EXCEPT ![EvidenceRow(e).file_path] = EvidenceBytes(e)]
    /\ UNCHANGED <<package_dirs, archives, generated>>
    /\ UNCHANGED <<today, control_implementations, audit_findings>>
    /\ UNCHANGED notAsmVars

\* The file of evidence row e is deleted from the evidence directory.
EvidenceFileRemoved(e) ==
    /\ e \in evidence \ Damaged
    /\ AsmEvents < MaxAsmEvents
    /\ evidence_files' = [evidence_files EXCEPT ![EvidenceRow(e).file_path] = Absent]
    /\ UNCHANGED <<evidence, package_dirs, archives, generated>>
    /\ UNCHANGED <<today, control_implementations, audit_findings>>
    /\ UNCHANGED notAsmVars

\* A later save_evidence_file writes other content to the path of evidence
\* row e (evidence_collector.py lines 68-76), the row keeping its file_hash.
EvidenceFileOverwritten(e) ==
    /\ e \in evidence \ Damaged
    /\ AsmEvents < MaxAsmEvents
    /\ \E b \in {EvidenceBytes(x) : x \in EvidenceIds} \ {EvidenceBytes(e)} :
          evidence_files' = [evidence_files EXCEPT ![EvidenceRow(e).file_path] = b]
    /\ UNCHANGED <<evidence, package_dirs, archives, generated>>
    /\ UNCHANGED <<today, control_implementations, audit_findings>>
    /\ UNCHANGED notAsmVars

\* The file of evidence row e loses its read permission.
EvidenceFileUnreadable(e) ==
    /\ e \in evidence \ Damaged
    /\ AsmEvents < MaxAsmEvents
    /\ evidence_files' = [evidence_files EXCEPT ![EvidenceRow(e).file_path] = Unreadable]
    /\ UNCHANGED <<evidence, package_dirs, archives, generated>>
    /\ UNCHANGED <<today, control_implementations, audit_findings>>
    /\ UNCHANGED notAsmVars

\* A test cycle persists a failed result of the control of implementation i.
FailedTestPersisted(i) ==
    /\ IsDue(i)
    /\ AsmEvents < MaxAsmEvents
    /\ \E e \in Raisable(DueRow(i)) : UpdateStatus(TestCaught(DueRow(i), e))
    /\ UNCHANGED today
    /\ UNCHANGED asmVars
    /\ UNCHANGED notAsmVars

\* The clock moves to the next day.
NextDay ==
    /\ today < FirstDay + MaxPackageDays
    /\ today' = today + 1
    /\ UNCHANGED <<control_implementations, audit_findings>>
    /\ UNCHANGED asmVars
    /\ UNCHANGED notAsmVars

\* generate_audit_package(client, framework) (lines 362-467) and the
\* activity that wraps it (temporal_workflows.py lines 356-380).
GenerateAuditPackage ==
    /\ AsmEvents < MaxAsmEvents
    /\ LET name     == PackageName(Client, Framework, today)
           controls == get_framework_controls
           written  == WriteInto(
                          WrittenFrom(controls, Len(controls)),
                          [p \in {<<"00-SUMMARY.html">>, <<"README.md">>} |->
                             IF p = <<"00-SUMMARY.html">>
                             THEN generate_framework_summary(controls)
                             ELSE <<Framework, Client, today>>])
           dir      == WriteInto(package_dirs[name], written)
       IN /\ package_dirs' = [package_dirs EXCEPT ![name] = dir]
          /\ archives' = [archives EXCEPT ![name] = dir]
          /\ generated' = Append(generated,
                [result |-> AuditPackageResult(Client, Framework, <<name, ".zip">>),
                 day |-> today,
                 controls |-> controls,
                 evidence |-> evidence,
                 findings |-> audit_findings,
                 log |-> UNION {ControlWarnings(controls[k]) :
                                   k \in DOMAIN controls}])
    /\ UNCHANGED <<evidence, evidence_files>>
    /\ UNCHANGED <<today, control_implementations, audit_findings>>
    /\ UNCHANGED notAsmVars

NextAssemble ==
    \/ \E e \in EvidenceIds : InsertEvidence(e)
    \/ \E e \in EvidenceIds : EvidenceFileRemoved(e)
    \/ \E e \in EvidenceIds : EvidenceFileOverwritten(e)
    \/ \E e \in EvidenceIds : EvidenceFileUnreadable(e)
    \/ \E i \in ImplIds : FailedTestPersisted(i)
    \/ NextDay
    \/ GenerateAuditPackage

NextCollect ==
    \/ \E s \in Sources : AttemptReturns(s)
    \/ \E s \in Sources : AttemptTimesOut(s)
    \/ GatherResolves
    \/ Summarize
    \/ NotifyAttemptFails
    \/ Notify
    \/ Return

(***************************************************************************)
(*                            GRC LLM CLIENT                               *)
(***************************************************************************)

\* Calls of complete and acomplete explored in one behaviour.
MaxLLMCalls == 3

\* Days that go by between the calls.
MaxLLMDays == 1

\* [self.primary_model] + self.fallback_models (lines 106 and 217), for a
\* client configured with one fallback.
models_to_try == <<"claude-sonnet-4-20250514", "gpt-4-turbo">>

\* cost_limits['daily_max_usd'] of the configuration (line 313).
daily_max_usd == 2

\* The values calculate_cost gives for a completion, in the unit of
\* daily_max_usd.
CostsUsd == {1, 2}

\* LLMUsage (lines 20-30), the token counts left out.
LLMUsage(model, cost, ok) ==
    [model |-> model, cost_usd |-> cost, timestamp |-> today, success |-> ok]

\* Lines 318-323: the spend of the successful usages of day d.
RECURSIVE SpendIn(_, _)
SpendIn(history, d) ==
    IF history = <<>> THEN 0
    ELSE (IF Head(history).timestamp = d /\ Head(history).success
          THEN Head(history).cost_usd ELSE 0) + SpendIn(Tail(history), d)

today_spend == SpendIn(usage_history, today)

\* _check_cost_limits (lines 308-329), daily_max_usd being configured.
check_cost_limits == ~(today_spend >= daily_max_usd)

\* The usages complete appends for the models that failed before model k
\* (lines 177-191).
FailedBefore(k) ==
    [j \in 1..(k - 1) |-> LLMUsage(models_to_try[j], 0, FALSE)]

\* complete (lines 76-200): the check of the limit, then the models in
\* turn until one answers; model k is the first to answer, or none does.
complete ==
    /\ ncalls < MaxLLMCalls
    /\ ncalls' = ncalls + 1
    /\ IF ~check_cost_limits
       THEN /\ raised' = "Daily cost limit exceeded"
            /\ UNCHANGED <<usage_history, requests>>
       ELSE \E k \in 1..(Len(models_to_try) + 1) :
               IF k <= Len(models_to_try)
               THEN \E c \in CostsUsd :
                       /\ usage_history' = usage_history \o FailedBefore(k)
                             \o <<LLMUsage(models_to_try[k], c, TRUE)>>
                       /\ requests' = requests + k
                       /\ raised' = NoValue
               ELSE /\ usage_history' = usage_history \o FailedBefore(k)
                    /\ requests' = requests + Len(models_to_try)
                    /\ raised' = "All LLM providers failed"
    /\ UNCHANGED today
    /\ UNCHANGED notLLMVars

\* acomplete (lines 202-274): the models in turn until one answers, with no
\* check of the limit; a failed model is logged, not recorded, and the error
\* of the last one is raised again.
acomplete ==
    /\ ncalls < MaxLLMCalls
    /\ ncalls' = ncalls + 1
    /\ \E k \in 1..(Len(models_to_try) + 1) :
          IF k <= Len(models_to_try)
          THEN \E c \in CostsUsd :
                  /\ usage_history' = Append(usage_history,
                                          LLMUsage(models_to_try[k], c, TRUE))
                  /\ requests' = requests + k
                  /\ raised' = NoValue
          ELSE /\ usage_history' = usage_history
               /\ requests' = requests + Len(models_to_try)
               /\ raised' = "provider error"
    /\ UNCHANGED today
    /\ UNCHANGED notLLMVars

\* datetime.now().date() moves on to the next day.
DayChanges ==
    /\ today < FirstDay + MaxLLMDays
    /\ today' = today + 1
    /\ UNCHANGED llmVars
    /\ UNCHANGED notLLMVars

NextLLM ==
    \/ complete
    \/ acomplete
    \/ DayChanges

\* The state after construction: the collection workflow at its first
\* statement with every activity scheduled, an empty evidence directory, one
\* of the given tables of implementation rows, no finding, no test cycle
\* started, no evidence row, no package and no usage of the LLM client.
InitFrom(tables) ==
    /\ job = [s \in Sources |-> [state |-> "scheduled", attempts |-> 0,
                                 result |-> NoValue]]
    /\ cpc = "gather"
    /\ total_evidence = 0
    /\ successful_sources = 0
    /\ failed_sources = <<>>
    /\ notifications = <<>>
    /\ notify_failures = 0
    /\ summary = <<>>
    /\ files = [p \in Paths |-> Absent]
    /\ put = [w \in Putters |-> Idle]
    /\ returned = {}
    /\ nputs = 0
    /\ today = FirstDay
    /\ control_implementations \in tables
    /\ audit_findings = EmptyBag
    /\ cycle = [w \in Workflows |-> IdleCycle]
    /\ ncycles = 0
    /\ nredeliveries = 0
    /\ evidence = {}
    /\ evidence_files = [p \in EvidencePaths |-> Absent]
    /\ package_dirs = [n \in PackageNames |-> EmptyDir]
    /\ archives = [n \in PackageNames |-> EmptyDir]
    /\ generated = <<>>
    /\ usage_history = <<>>
    /\ requests = 0
    /\ raised = NoValue
    /\ ncalls = 0

\* The table of the three implementation rows, last tested the day before
\* FirstDay: those of control A due since then and having the testing
\* frequency fa, that of control B due on FirstDay.
ThreeRows(fa) ==
    [i \in ImplIds |->
        [control_id |-> ControlOf(i),
         implementation_status |-> StatusOf(i),
         testing_frequency |-> IF ControlOf(i) = "A" THEN fa ELSE "weekly",
         last_test_date |-> FirstDay - 1,
         next_test_date |-> IF ControlOf(i) = "A" THEN FirstDay - 1
                            ELSE FirstDay]]

InitWith(fs) == InitFrom({ThreeRows(fa) : fa \in fs})

Init == InitWith({"quarterly"})

\* The test cycle is explored for every value of testing_frequency.
InitTest == InitWith(FrequencyValues)

\* A table of MaxDueRows quarterly rows, more than LIMIT lets through.  Row
\* k fell due k days before FirstDay, so the rows with the largest ids are
\* the oldest-due; row u is not fully implemented, row v falls due the day
\* after FirstDay, and row t, if any, fell due on the same day as row t + 1.
ManyRows(u, v, t) ==
    LET next(k) == IF k = v THEN FirstDay + 1
                   ELSE IF k = t THEN FirstDay - (k + 1)
                   ELSE FirstDay - k
    IN [k \in 1..MaxDueRows |->
          [control_id |-> ControlOf(k),
           implementation_status |->
              IF k = u THEN "partially_implemented" ELSE "implemented",
           testing_frequency |-> "quarterly",
           last_test_date |-> next(k) - frequency_days("quarterly"),
           next_test_date |-> next(k)]]

\* get_controls_due_for_testing is explored on the tables of ManyRows.
InitDue ==
    InitFrom({ManyRows(u, v, t) : u \in {1, 4}, v \in {2, 5}, t \in {0, 1, 6}})

NextDue ==
    \/ Tick
    \/ \E w \in Workflows : Fetch(w)

SpecDue == InitDue /\ [][NextDue]_vars

SpecCollect == Init /\ [][NextCollect]_vars

SpecStore == Init /\ [][NextStore]_vars

SpecTest == InitTest /\ [][NextTest]_vars

SpecAssemble == Init /\ [][NextAssemble]_vars

SpecLLM == Init /\ [][NextLLM]_vars

(***************************************************************************)
(*                 Properties of the control-testing cycle                 *)
(***************************************************************************)

\* The findings recorded for control c with identified_date d, counted with
\* their copies.
FindingsOn(c, d) ==
    LET rows == {f \in BagToSet(audit_findings) :
                    /\ ControlOf(f.control_implementation_id) = c
                    /\ f.identified_date = d}
    IN BagCardinality([f \in rows |-> CopiesIn(f, audit_findings)])

\* C3: in every reachable state there is at most one Finding per
\* (control, identified_date).
C3_OneFindingPerControlAndDay ==
    \A c \in {ControlOf(i) : i \in ImplIds} :
       \A d \in FirstDay..(FirstDay + MaxEvents) : FindingsOn(c, d) <= 1

\* A step in which update_control_test_status persists the result that
\* workflow w holds.
Persists(w) == Update(w) \/ UpdateRedelivered(w)

\* C8: when a failed result is persisted, an implementation row of its
\* control gets last_test_date = tested_at and next_test_date = tested_at + 1
\* day, whatever the row's testing_frequency, and exactly one finding is
\* added, with severity high and status open, for that row.
C8_FailedResultPersisted ==
    [][\A w \in Workflows :
         (Persists(w) /\ ~cycle[w].result[1].test_passed) =>
            LET r == cycle[w].result[1] IN
            \E id \in ImplIds :
               /\ control_implementations[id].control_id = r.control_id
               /\ control_implementations'[id].last_test_date = r.test_date
               /\ control_implementations'[id].next_test_date = r.test_date + 1
               /\ BagCardinality(audit_findings')
                     = BagCardinality(audit_findings) + 1
               /\ \E f \in BagToSet(audit_findings') :
                     /\ CopiesIn(f, audit_findings')
                           = CopiesIn(f, audit_findings) + 1
                     /\ f.severity = "high"
                     /\ f.status = "open"
                     /\ f.control_implementation_id = id
                     /\ f.identified_date = r.test_date]_vars

\* C8 witness: a failed result was persisted for a control tested annually:
\* its row is due again the day after the test and carries a finding.
C8_Witness ==
    \E id \in ImplIds :
       /\ control_implementations[id].testing_frequency = "annually"
       /\ control_implementations[id].last_test_date >= FirstDay
       /\ control_implementations[id].next_test_date
             = control_implementations[id].last_test_date + 1
       /\ \E f \in BagToSet(audit_findings) :
             /\ f.control_implementation_id = id
             /\ f.severity = "high"

\* C9: an error raised by a control's test logic is caught: the activity
\* completes, the workflow goes on to the update and does not fail, and the
\* result has test_passed = False, findings = ["Test failed: <error>"] and
\* next_test_date = test_date + 1 day.
C9_TestErrorBecomesFailedResult ==
    [][\A w \in Workflows :
         TestLogicRaises(w) =>
            /\ cycle'[w].pc = "update"
            /\ Len(cycle'[w].result) = 1
            /\ LET r == cycle'[w].result[1] IN
               /\ ~r.test_passed
               /\ r.control_id = cycle[w].controls[cycle[w].i].control_id
               /\ \E e \in TestErrors : r.findings = <<<<"Test failed: ", e>>>>
               /\ r.test_date = today
               /\ r.next_test_date = r.test_date + 1]_vars

\* C9 witness: a workflow holds the failed result of a test whose logic
\* raised, for a control that is not tested daily.
C9_Witness ==
    \E w \in Workflows :
       /\ cycle[w].pc = "update"
       /\ ~cycle[w].result[1].test_passed
       /\ cycle[w].controls[cycle[w].i].testing_frequency = "quarterly"

\* C10: a control code with no registered test function yields passed = true
\* with an empty finding list and a non-empty "not independently verified"
\* metadata marker on the result.
C10_DefaultPassIsMarked ==
    \A w \in Workflows :
       (cycle[w].pc = "update"
          /\ cycle[w].result[1].control_code \notin RegisteredCodes) =>
             LET r == cycle[w].result[1] IN
             /\ r.test_passed
             /\ r.findings = <<>>
             /\ "metadata" \in DOMAIN r
             /\ r.metadata # <<>>

(***************************************************************************)
(*                  Properties of audit package assembly                   *)
(***************************************************************************)

\* The manifest hash a call of generate_audit_package hands back, NoValue
\* when what it returned carries none.
ManifestHashOf(g) ==
    IF "manifest_hash" \in DOMAIN g.result THEN g.result.manifest_hash
    ELSE NoValue

\* Call j read the input of call i plus one new approved evidence item of a
\* control of the framework.
OneApprovedEvidenceAdded(i, j) ==
    /\ generated[j].controls = generated[i].controls
    /\ generated[j].findings = generated[i].findings
    /\ \E e \in EvidenceIds :
          /\ e \notin generated[i].evidence
          /\ generated[j].evidence = generated[i].evidence \cup {e}
          /\ EvidenceRow(e).review_status = "approved"
          /\ \E k \in DOMAIN generated[j].controls :
                generated[j].controls[k].control_implementation_id
                   = EvidenceRow(e).control_implementation_id

\* C6: two assemblies over unchanged controls, evidence and findings yield
\* the same manifest_hash, and adding one new approved evidence item to a
\* control of the framework changes the manifest_hash.
C6_ManifestHashTracksInputs ==
    \A i \in DOMAIN generated, j \in DOMAIN generated :
       /\ (/\ generated[i].controls = generated[j].controls
           /\ generated[i].evidence = generated[j].evidence
           /\ generated[i].findings = generated[j].findings)
             => ManifestHashOf(generated[i]) = ManifestHashOf(generated[j])
       /\ OneApprovedEvidenceAdded(i, j)
             => ManifestHashOf(generated[i]) # ManifestHashOf(generated[j])

(***************************************************************************)
(*                    Properties of the evidence store                     *)
(***************************************************************************)

\* The paths of category (subdir) d that hold exactly the bytes b.
BlobsHolding(d, b) ==
    {FilePath(f, d) : f \in {g \in Filenames : files[FilePath(g, d)] = b}}

\* C4: put is idempotent and content-addressed: two calls with byte-identical
\* content under the same category return the same hash and the same storage
\* path, whatever logical name is passed, and leave a single stored blob.
C4_PutIsContentAddressed ==
    \A r1 \in returned, r2 \in returned :
       (Serialize(r1.content) = Serialize(r2.content) /\ r1.subdir = r2.subdir)
          => /\ r1.hash = r2.hash
             /\ r1.path = r2.path
             /\ Cardinality(BlobsHolding(r1.subdir, Serialize(r1.content))) <= 1

\* C5: every (path, hash) pair a put has returned still verifies: the bytes
\* now at the path hash to the returned hash.
C5_ReturnedPairsStillVerify ==
    \A r \in returned :
       /\ files[r.path] # Absent
       /\ Sha256(files[r.path]) = r.hash

(***************************************************************************)
(*                  Properties of the collection workflow                  *)
(***************************************************************************)

\* The source jobs whose activity returned success.
Succeeded(s) == job[s].state = "completed" /\ job[s].result.success

\* A source job that ended without success: the activity returned
\* success = False, or the runtime gave up on it.
EndedInFailure(s) == Terminal(s) /\ ~Succeeded(s)

RECURSIVE SumCounts(_)
SumCounts(S) ==
    IF S = {} THEN 0
    ELSE LET s == CHOOSE x \in S : TRUE
         IN job[s].result.evidence_count + SumCounts(S \ {s})

\* C1: a terminal failure of any subset of the source jobs neither blocks the
\* jobs of the other sources nor makes run raise: run never leaves by an
\* exception, a job still scheduled can always make its attempt, the workflow
\* can always take its next step until it has returned, and what it returns
\* is a summary.
C1_RunAlwaysReturnsSummary ==
    /\ cpc # "raised"
    /\ \A s \in Sources :
          (cpc = "gather" /\ Scheduled(s)) =>
              ENABLED AttemptReturns(s) /\ ENABLED AttemptTimesOut(s)
    /\ cpc # "done" => ENABLED NextCollect
    /\ cpc = "done" =>
          /\ Len(summary) = 1
          /\ DOMAIN summary[1] = {"total_evidence_collected",
                                  "successful_sources", "failed_sources"}

\* C1 witness: a run that returned although one job exhausted its attempts,
\* one returned an application error and another succeeded.
C1_Witness ==
    /\ cpc = "done"
    /\ Len(summary) = 1
    /\ \E s \in Sources : job[s].state = "failed"
    /\ \E s \in Sources : job[s].state = "completed" /\ ~job[s].result.success
    /\ \E s \in Sources : Succeeded(s)

\* C2: the returned summary is the exact aggregate of the per-source
\* outcomes: successful_sources counts the jobs that succeeded,
\* total_evidence_collected sums their evidence_count, and failed_sources
\* holds exactly one entry naming each source that did not succeed.
C2_SummaryIsExactAggregate ==
    cpc = "done" =>
       LET ok  == {s \in Sources : Succeeded(s)}
           bad == Sources \ ok
           out == summary[1]
       IN /\ out.successful_sources = Cardinality(ok)
          /\ out.total_evidence_collected = SumCounts(ok)
          /\ Len(out.failed_sources) = Cardinality(bad)
          /\ out.successful_sources + Len(out.failed_sources)
                = Cardinality(Sources)
          /\ \A s \in bad :
                Cardinality({i \in DOMAIN out.failed_sources :
                                Mentions(out.failed_sources[i], s)}) = 1

\* C7: a source job is recorded as failed only after the retry policy's
\* attempts are exhausted, whether its attempts ended in an application
\* error, in zero items or in a timeout.
C7_FailedOnlyAfterRetries ==
    \A s \in Sources : EndedInFailure(s) => job[s].attempts = MaximumAttempts

(***************************************************************************)
(*                  Rescheduling after a test (C11, C12, C13)              *)
(***************************************************************************)

\* The results workflow w holds, each with the control row it was computed
\* from: those appended to test_results and the one awaiting its update.
ResultsOf(w) ==
    {<<cycle[w].controls[k], cycle[w].test_results[k]>> :
        k \in DOMAIN cycle[w].test_results}
    \cup (IF cycle[w].result = <<>> THEN {}
          ELSE {<<cycle[w].controls[cycle[w].i], cycle[w].result[1]>>})

AllResults == UNION {ResultsOf(w) : w \in Workflows}

\* C11: for a passed test of a control whose testing_frequency is one of
\* daily, weekly, monthly, quarterly, annually, next_test_date is the test
\* date plus 1, 7, 30, 90, 365 days respectively.
C11_PassedTestUsesFrequencyOffset ==
    \A cr \in AllResults :
       LET f == cr[1].testing_frequency
           r == cr[2]
       IN r.test_passed =>
             /\ (f = "daily"     => r.next_test_date = r.test_date + 1)
             /\ (f = "weekly"    => r.next_test_date = r.test_date + 7)
             /\ (f = "monthly"   => r.next_test_date = r.test_date + 30)
             /\ (f = "quarterly" => r.next_test_date = r.test_date + 90)
             /\ (f = "annually"  => r.next_test_date = r.test_date + 365)

\* One cycle has passed a monthly and a weekly control and persisted both.
C11_Witness ==
    \E w \in Workflows :
       /\ \E k \in DOMAIN cycle[w].test_results :
             /\ cycle[w].test_results[k].test_passed
             /\ cycle[w].controls[k].testing_frequency = "monthly"
       /\ \E k \in DOMAIN cycle[w].test_results :
             /\ cycle[w].test_results[k].test_passed
             /\ cycle[w].controls[k].testing_frequency = "weekly"

\* The passed quarterly results computed on 1 January 2025.
QuarterlyPassedOnNewYear ==
    {cr[2] : cr \in {x \in AllResults :
                       /\ x[2].test_passed
                       /\ x[1].testing_frequency = "quarterly"
                       /\ DateOf(x[2].test_date) = <<2025, 1, 1>>}}

\* C13 as amended: a quarterly control whose test passed on 2025-01-01 gets
\* next_test_date = 2025-04-01, the date 90 days later.
C13_QuarterlyFromNewYearIsFirstOfApril ==
    \A r \in QuarterlyPassedOnNewYear :
       DateOf(r.next_test_date) = <<2025, 4, 1>>

\* C13 as stated: a quarterly control whose test passed on 2025-01-01 gets
\* next_test_date = 2025-03-31.
C13_QuarterlyFromNewYearIsLastOfMarch ==
    \A r \in QuarterlyPassedOnNewYear :
       DateOf(r.next_test_date) = <<2025, 3, 31>>

\* A quarterly control passed its test on 2025-01-01 and the result was
\* persisted.
C13_Witness ==
    \E w \in Workflows : \E k \in DOMAIN cycle[w].test_results :
       cycle[w].test_results[k] \in QuarterlyPassedOnNewYear

\* C12: every result computed by run_automated_control_test, passed or
\* failed, has next_test_date strictly later than its test date, and every
\* row of control_implementations has next_test_date >= last_test_date (the
\* rows update_control_test_status has written among them).
C12_NextTestAfterLastTest ==
    /\ \A cr \in AllResults : cr[2].next_test_date > cr[2].test_date
    /\ \A i \in ImplIds :
          control_implementations[i].next_test_date
             >= control_implementations[i].last_test_date

\* update_control_test_status has written a row from a failed result and a
\* row from a passed one.
C12_Witness ==
    /\ \E i \in ImplIds :
          /\ control_implementations[i].last_test_date >= FirstDay
          /\ control_implementations[i].next_test_date
                = control_implementations[i].last_test_date + RetryTomorrow
          /\ control_implementations[i].testing_frequency # "daily"
    /\ \E i \in ImplIds :
          /\ control_implementations[i].last_test_date >= FirstDay
          /\ control_implementations[i].next_test_date
                > control_implementations[i].last_test_date + RetryTomorrow

(***************************************************************************)
(*                 get_controls_due_for_testing (C14)                      *)
(***************************************************************************)

\* The list cs is what a query for the due controls owes on day as_of: rows
\* of the table, none twice, each implemented and due, in ascending order of
\* next_test_date, all of the due rows when there are at most DueLimit of
\* them and otherwise DueLimit rows none of which fell due later than a due
\* row left out.
IsDueList(cs, as_of) ==
    LET table == control_implementations
        ids == {cs[k].control_implementation_id : k \in DOMAIN cs}
        due == {i \in DOMAIN table :
                  /\ table[i].implementation_status = "implemented"
                  /\ table[i].next_test_date <= as_of}
    IN /\ Cardinality(ids) = Len(cs)
       /\ ids \subseteq due
       /\ \A k \in DOMAIN cs :
             cs[k].next_test_date
                = table[cs[k].control_implementation_id].next_test_date
       /\ \A a, b \in DOMAIN cs :
             a < b => cs[a].next_test_date <= cs[b].next_test_date
       /\ Len(cs) = (IF Cardinality(due) <= 100 THEN Cardinality(due) ELSE 100)
       /\ \A i \in ids : \A j \in due \ ids :
             table[i].next_test_date <= table[j].next_test_date

\* C14: the list a cycle fetches is exactly the implemented rows with
\* next_test_date <= today, ascending in next_test_date, cut to the 100
\* oldest-due.
C14_FetchReturnsOldestDue ==
    [][\A w \in Workflows :
          Fetch(w) => IsDueList(cycle'[w].controls, today)]_vars

\* On FirstDay a cycle fetched 100 controls while more were due: a due row
\* was cut off, and a due row that is not implemented and a row not yet due
\* were left out.
C14_Witness ==
    /\ today = FirstDay
    /\ \E w \in Workflows :
          LET ids == {cycle[w].controls[k].control_implementation_id :
                         k \in DOMAIN cycle[w].controls}
          IN /\ Len(cycle[w].controls) = 100
             /\ \E j \in DOMAIN control_implementations \ ids : IsDue(j)
             /\ \E j \in DOMAIN control_implementations \ ids :
                   /\ control_implementations[j].next_test_date <= today
                   /\ control_implementations[j].implementation_status
                         # "implemented"
             /\ \E j \in DOMAIN control_implementations \ ids :
                   control_implementations[j].next_test_date > today

(***************************************************************************)
(*                 Findings and passed tests (C15)                         *)
(***************************************************************************)

\* C15: a step that persists a passed result leaves audit_findings as it
\* was, and no step at all removes a finding or changes its status: every
\* finding is still there afterwards, as many times and with the status it
\* had.
C15_PassLeavesFindingsAlone ==
    [][/\ \A w \in Workflows :
             (Persists(w) /\ cycle[w].result[1].test_passed)
                => audit_findings' = audit_findings
       /\ \A f \in BagToSet(audit_findings) :
             CopiesIn(f, audit_findings') >= CopiesIn(f, audit_findings)]_vars

\* The only workflow that ever ran failed control A in one cycle and, on a
\* later day, passed and persisted it in the next, the open finding of the
\* failure still being there.
C15_Witness ==
    \E w \in Workflows :
       /\ \A v \in Workflows \ {w} : cycle[v] = IdleCycle
       /\ \E k \in DOMAIN cycle[w].test_results :
             LET r == cycle[w].test_results[k] IN
             /\ r.test_passed
             /\ \E f \in BagToSet(audit_findings) :
                   /\ control_implementations[f.control_implementation_id].control_id
                         = r.control_id
                   /\ f.identified_date < r.test_date
                   /\ f.status = "open"

(***************************************************************************)
(*                 Failures within a test cycle (C16)                      *)
(***************************************************************************)

\* C16: a failure while one due control is processed never ends the cycle
\* (no workflow execution fails with due controls untested), and a cycle
\* that returns reports controls_tested = the number of controls fetched
\* and passed + failed = controls_tested.
C16_ControlFailureIsIsolated ==
    \A w \in Workflows :
       /\ cycle[w].pc # "faulted"
       /\ cycle[w].pc = "done" =>
             LET out == cycle[w].out[1] IN
             /\ out.controls_tested = Len(cycle[w].controls)
             /\ out.passed + out.failed = out.controls_tested

(***************************************************************************)
(*            Content of an assembled package (C17, C18, C19, C20)         *)
(***************************************************************************)

\* The packages assembled so far, by name.
Assembled == {n \in PackageNames : package_dirs[n] # EmptyDir}

\* The path of the entry of control c in a package.
EntryPath(c) == DomainDir(c) \o <<c.control_code, ".html">>

\* C17: every control of the framework has its own entry in every assembled
\* package, and a control with no linked implementation is reported there
\* as not_implemented with zero evidence and counted as not implemented in
\* the summary.
C17_EveryControlAppears ==
    \A n \in Assembled :
       LET dir == package_dirs[n]
           unlinked == {k \in DOMAIN FrameworkControls :
                          ImplementationsOf(FrameworkControls[k].control_id) = {}}
       IN /\ \A k \in DOMAIN FrameworkControls :
                EntryPath(FrameworkControls[k]) \in DOMAIN dir
          /\ \A k \in unlinked :
                LET entry == dir[EntryPath(FrameworkControls[k])] IN
                /\ entry.control.implementation_status = "not_implemented"
                /\ entry.evidence = <<>>
          /\ dir[<<"00-SUMMARY.html">>].not_implemented >= Cardinality(unlinked)

\* The period the packages are requested for.  generate_audit_package takes
\* no period; the days the packages are generated on are taken.
RequestedPeriod == [start |-> FirstDay, end |-> FirstDay + MaxPackageDays]

\* Evidence row r may be referenced: it is approved and its period overlaps
\* the requested one.
Admissible(r) ==
    /\ r.review_status = "approved"
    /\ r.evidence_period_start <= RequestedPeriod.end
    /\ r.evidence_period_end >= RequestedPeriod.start

\* The path the file of evidence row e is copied to in a package.
CopyPath(e) ==
    LET c == control_implementations[EvidenceRow(e).control_implementation_id].control_id
        k == CHOOSE x \in DOMAIN FrameworkControls :
                FrameworkControls[x].control_id = c
    IN DomainDir(FrameworkControls[k]) \o <<BaseName(EvidenceRow(e).file_path)>>

\* C18: every evidence item listed in a control entry of an assembled
\* package or copied into it is approved and has a period overlapping the
\* requested period.
C18_OnlyApprovedEvidenceInPeriod ==
    \A n \in Assembled :
       LET dir == package_dirs[n] IN
       /\ \A k \in DOMAIN FrameworkControls :
             LET p == EntryPath(FrameworkControls[k]) IN
             p \in DOMAIN dir =>
                \A j \in DOMAIN dir[p].evidence : Admissible(dir[p].evidence[j])
       /\ \A e \in EvidenceIds :
             CopyPath(e) \in DOMAIN dir => Admissible(EvidenceRow(e))

\* The file of evidence row e is missing, or holds bytes that do not hash
\* to the recorded file_hash.
FailsIntegrity(e) ==
    LET f == evidence_files[EvidenceRow(e).file_path] IN
    \/ f = Absent
    \/ f # Unreadable /\ Sha256(f) # EvidenceRow(e).file_hash

\* C19: a call of generate_audit_package that meets an evidence record whose
\* file is missing or does not match its hash still produces the package,
\* and records a warning naming the file of every such record.
C19_DamagedEvidenceIsWarnedAbout ==
    [][GenerateAuditPackage =>
          LET g == generated'[Len(generated')] IN
          /\ archives'[g.result.package_path[1]] # EmptyDir
          /\ \A e \in evidence :
                FailsIntegrity(e) =>
                   \E line \in g.log : line[2] = EvidenceRow(e).file_path]_vars

\* C20: a call of generate_audit_package produces a package under a name no
\* earlier package has, and leaves the directory and the archive of every
\* earlier package as they were.
C20_PackagesAreNeverMutated ==
    [][GenerateAuditPackage =>
          /\ \A k \in DOMAIN generated :
                generated[k].result.package_path
                   # generated'[Len(generated')].result.package_path
          /\ \A n \in Assembled :
                /\ package_dirs'[n] = package_dirs[n]
                /\ archives'[n] = archives[n]]_vars

(***************************************************************************)
(*                  Partial writes in the evidence store (C21)             *)
(***************************************************************************)

\* C21: at every moment every evidence path holds no file or the complete
\* bytes of one put, whether puts are stopped midway or write the same path
\* concurrently, and every hash returned is the hash of the complete bytes
\* of the content that was put.
C21_NoPartialContentVisible ==
    /\ \A p \in Paths :
          \/ files[p] = Absent
          \/ \E c \in Contents : files[p] = Serialize(c)
    /\ \A r \in returned : r.hash = Sha256(Serialize(r.content))

(***************************************************************************)
(*               Notifications of the collection run (C22, C23)            *)
(***************************************************************************)

C23_NotifierFailureNeverBlocks ==
    notify_failures > 0 => cpc \in {"return", "done"}

(***************************************************************************)
(*                     Order of a test cycle (C24)                         *)
(***************************************************************************)

\* The steps a cycle can take from one position to the next.
CycleSteps ==
    {<<"idle", "test">>, <<"idle", "summarize">>,
     <<"done", "test">>, <<"done", "summarize">>,
     <<"faulted", "test">>, <<"faulted", "summarize">>,
     <<"test", "update">>, <<"test", "faulted">>,
     <<"update", "test">>, <<"update", "summarize">>,
     <<"summarize", "notify">>, <<"summarize", "done">>,
     <<"notify", "done">>}

\* The position of cycle w agrees with the work it has done: its controls
\* are in oldest-due-first order, the results so far are those of the first
\* controls in that order, a control under update has its own result, and
\* past the loop every fetched control has been tested and updated.
CycleInOrder(w) ==
    LET c == cycle[w] IN
    /\ \A j, k \in DOMAIN c.controls :
          j < k => c.controls[j].next_test_date <= c.controls[k].next_test_date
    /\ Len(c.test_results) <= Len(c.controls)
    /\ \A k \in DOMAIN c.test_results :
          c.test_results[k].control_id = c.controls[k].control_id
    /\ c.pc \in {"test", "update", "faulted"} =>
          /\ c.i \in DOMAIN c.controls
          /\ Len(c.test_results) = c.i - 1
    /\ c.pc \in {"test", "faulted"} => c.result = <<>>
    /\ c.pc = "update" =>
          /\ c.result # <<>>
          /\ c.result[1].control_id = c.controls[c.i].control_id
    /\ c.pc \in {"summarize", "notify", "done"} =>
          Len(c.test_results) = Len(c.controls)
    /\ c.pc = "notify" => \E k \in DOMAIN c.test_results :
                             ~c.test_results[k].test_passed
    /\ c.out # <<>> =>
          /\ c.pc = "done"
          /\ c.out[1].controls_tested = Len(c.controls)

\* C24: a cycle goes from fetching through testing and updating of each
\* control in turn to the summary and its end; controls are tested oldest
\* due first, a row of the table is written only by a cycle that holds the
\* test result of that control, all fetched controls are updated before the
\* summary, and the failure notification comes after all updates.
C24_CycleProceedsInOrder ==
    /\ [](\A w \in Workflows : CycleInOrder(w))
    /\ [][/\ \A w \in Workflows :
               cycle'[w].pc # cycle[w].pc =>
                  <<cycle[w].pc, cycle'[w].pc>> \in CycleSteps
          /\ control_implementations' # control_implementations =>
               \E w \in Workflows :
                  /\ cycle[w].pc = "update"
                  /\ cycle[w].result # <<>>
                  /\ \A i \in ImplIds :
                        control_implementations'[i] # control_implementations[i]
                        => control_implementations[i].control_id
                              = cycle[w].result[1].control_id]_vars

\* A cycle of two controls has ended after a failed test and has notified.
C24_Witness ==
    \E w \in Workflows :
       /\ cycle[w].pc = "done"
       /\ Len(cycle[w].controls) >= 2
       /\ cycle[w].out[1].notified

(***************************************************************************)
(*                 The processed row leaves the due set (C25)              *)
(***************************************************************************)

\* C25: when a cycle completes the update of a control implementation it
\* fetched as due, that row carries the date of the test as last_test_date
\* and a next_test_date after the day of the fetch, so it is no longer due
\* as of that day.
C25_ProcessedRowIsNoLongerDue ==
    [][\A w \in Workflows :
          Update(w) =>
             LET id == cycle[w].controls[cycle[w].i].control_implementation_id
                 r  == cycle[w].result[1]
             IN /\ control_implementations'[id].last_test_date = r.test_date
                /\ control_implementations'[id].next_test_date
                      > cycle[w].as_of]_vars

(***************************************************************************)
(*                      Overlapping test cycles (C27)                      *)
(***************************************************************************)

\* The implementation rows cycle w has fetched, tested and updated.
Processed(w) ==
    {cycle[w].controls[k].control_implementation_id :
        k \in DOMAIN cycle[w].test_results}

\* The positions of a cycle that is under way.
Running == {"test", "update", "summarize", "notify"}

\* C27: two cycles that are under way at the same time for the same day
\* have not both tested and updated the same control implementation.
C27_OverlappingCyclesShareNoControl ==
    \A v, w \in Workflows :
       (/\ v # w
        /\ cycle[v].pc \in Running
        /\ cycle[w].pc \in Running
        /\ cycle[v].as_of = cycle[w].as_of)
       => Processed(v) \cap Processed(w) = {}

(***************************************************************************)
(*                  A run in which every call succeeds (C26)               *)
(***************************************************************************)

\* The number of artifacts the collector of s gathers (lines 76-78, 110-112,
\* 144-148 and 176-180).
ArtifactCount(s) ==
    CASE s = "wazuh"    -> 3
      [] s = "keycloak" -> 3
      [] s = "openscap" -> 1
      [] s = "github"   -> 1

\* What the activity of s returns when an external call of its collector
\* failed: an error raised by the call or, for GitHub, an answer other than
\* 200.
ExternalFailures(s) ==
    {FailureResult(s, e) : e \in CollectorErrors}
    \cup IF s = "github"
         THEN {EvidenceCollectionResult("github", 0, FALSE, NoValue)}
         ELSE {}

\* The activity of s has returned and no external call of it failed.
CallsSucceeded(s) ==
    /\ job[s].state = "completed"
    /\ job[s].result \notin ExternalFailures(s)

\* C26: an activity none of whose external calls failed reports success
\* with the number of artifacts of its source, and a run in which this is
\* so for the four sources returns successful_sources = 4 and no failed
\* source.
C26_AllSucceedGivesFourSources ==
    /\ \A s \in Sources :
          CallsSucceeded(s) =>
             job[s].result =
                EvidenceCollectionResult(s, ArtifactCount(s), TRUE, NoValue)
    /\ (cpc = "done" /\ \A s \in Sources : CallsSucceeded(s)) =>
          /\ summary[Len(summary)].successful_sources = 4
          /\ summary[Len(summary)].failed_sources = <<>>

(***************************************************************************)
(*               Counted evidence and the evidence table (C28)             *)
(***************************************************************************)

\* C28: when a collection run has returned, the evidence table holds a row
\* for every item counted in total_evidence_collected.
C28_CountedEvidenceIsRecorded ==
    cpc = "done" =>
       Cardinality(evidence) >= summary[Len(summary)].total_evidence_collected

(***************************************************************************)
(*                 Leftovers of an earlier generation (C29)                *)
(***************************************************************************)

\* The file at path p with content c of a package is one a call reading the
\* current tables and evidence directory produces: the summary, the README,
\* the entry of a control of the framework, or the copy of the file of an
\* evidence row as it is now.
FromInputState(p, c) ==
    \/ p \in {<<"00-SUMMARY.html">>, <<"README.md">>}
    \/ \E k \in DOMAIN FrameworkControls : p = EntryPath(FrameworkControls[k])
    \/ \E e \in evidence :
          /\ p = CopyPath(e)
          /\ evidence_files[EvidenceRow(e).file_path] = c

\* C29: when generate_audit_package returns, every file of the package
\* directory and of its archive comes from the state that call read.
C29_NothingCarriedOver ==
    [][GenerateAuditPackage =>
          LET name == PackageName(Client, Framework, today) IN
          /\ \A p \in DOMAIN package_dirs'[name] :
                FromInputState(p, package_dirs'[name][p])
          /\ \A p \in DOMAIN archives'[name] :
                FromInputState(p, archives'[name][p])]_vars

(***************************************************************************)
(*                        The daily cost limit (C30)                       *)
(***************************************************************************)

\* C30: a call of complete or acomplete made when today's successful spend
\* has reached daily_max_usd sends no request to a provider, raises the
\* cost-limit error and leaves usage_history as it is.
C30_NoRequestPastDailyLimit ==
    [][(today_spend >= daily_max_usd /\ ncalls' # ncalls) =>
          /\ requests' = requests
          /\ usage_history' = usage_history
          /\ raised' = "Daily cost limit exceeded"]_vars

=============================================================================
